---- MODULE Spec2Model ----
(***************************************************************************)
(* Model of Source/SubsystemBrowser/Model/SubsystemBrowserModel.cpp:       *)
(* SubsystemCategoryFilter (per-identifier visibility overrides persisted  *)
(* through the settings object) and FSubsystemModel (the two-level         *)
(* category / subsystem tree rebuilt by SetCurrentWorld, its filtered      *)
(* views and the dynamic column query).                                    *)
(***************************************************************************)
EXTENDS Integers, Sequences, FiniteSets, TLC

\* ---------------------------------------------------------------- bounds
MaxCategories == 2

MaxColumns == 3

\* ------------------------------------------------- external collaborators
CategoryIDs == {"A", "B"}

Priorities == {0, 1}

\* A registered category descriptor: identifier and sort priority.
Descriptors == [id : CategoryIDs, prio : Priorities]

NullWorld == "null"

Worlds == {"W1", "W2"}

Contexts == Worlds \cup {NullWorld}

\* The objects alive in each world, in the order the engine enumerates them.
WorldObjects(w) ==
    CASE w = "W1" -> <<"o1", "o3", "o2">>
      [] w = "W2" -> <<"o2", "o4">>
      [] OTHER    -> <<>>

\* The category kind an object is enumerated under.
ObjClass(o) == IF o = "o3" THEN "B" ELSE "A"

\* Item->IsGameModule()
IsGameModule(o) == o \in {"o1", "o3"}

\* Item->GetDisplayNameString(), as a sequence of character codes.
GetDisplayNameString(o) ==
    CASE o = "o1" -> <<2>>
      [] o = "o2" -> <<1>>
      [] o = "o3" -> <<1, 2>>
      [] OTHER    -> <<2>>

\* AsCategory->Select(LocalWorld)
Select(desc, w) == SelectSeq(WorldObjects(w), LAMBDA o : ObjClass(o) = desc.id)

NoTextFilter == "none"

TextFilters == {"F1", "F2"}

\* SubsystemTextFilter->PassesFilter(*Item): F1 matches names containing
\* character 1, F2 names containing character 2.
TextFilterPasses(f, item) ==
    LET name == GetDisplayNameString(item.obj)
        ch == IF f = "F1" THEN 1 ELSE 2
    IN \E i \in 1..Len(name) : name[i] = ch

ColumnNames == {"X", "Y"}

ColumnDescs == [name : ColumnNames, prio : Priorities]

\* ------------------------------------------------------------- utilities
Range(s) == {s[i] : i \in 1..Len(s)}

SeqsUpTo(S, n) == UNION {[1..k -> S] : k \in 0..n}

PartialMaps(D, R) == UNION {[S -> R] : S \in SUBSET D}

EmptyMap == [k \in {} |-> <<>>]

\* TMap::Add(Key, Value): insert or overwrite.
MapAdd(f, k, v) == [x \in (DOMAIN f) \cup {k} |-> IF x = k THEN v ELSE f[x]]

\* TMap::FindOrAdd(Key).Add(Item): append to the entry, creating it if absent.
FindOrAddAppend(f, k, item) ==
    [x \in (DOMAIN f) \cup {k} |->
        IF x = k THEN (IF k \in DOMAIN f THEN Append(f[k], item) ELSE <<item>>)
                 ELSE f[x]]

\* FString operator< on display names: lexicographic order.
LexLess(a, b) ==
    \E i \in 1..Len(b) :
        /\ i - 1 <= Len(a)
        /\ \A j \in 1..(i - 1) : a[j] = b[j]
        /\ \/ Len(a) = i - 1
           \/ (Len(a) >= i /\ a[i] < b[i])

\* TArray::StableSort: the unique ordering of s that is sorted by the
\* predicate and keeps the original relative order of the elements it does
\* not separate.  less[i, j] is the predicate applied to s[i] and s[j].
StableSort(s, less) ==
    LET n == Len(s)
        rank(i) == 1 + Cardinality({j \in 1..n :
                        \/ less[j, i]
                        \/ (~less[i, j] /\ j < i)})
    IN [r \in 1..n |-> s[CHOOSE i \in 1..n : rank(i) = r]]

\* SubsystemCategorySorter: ascending declared priority.
SubsystemCategorySorter(a, b) == a.desc.prio < b.desc.prio

\* SubsystemColumnSorter: ascending declared priority.
SubsystemColumnSorter(a, b) == a.prio < b.prio

\* Every object of any world.
Objects == UNION {Range(WorldObjects(w)) : w \in Worlds}

\* The pairs of objects whose display names compare with operator<.
NameOrder ==
    {p \in Objects \X Objects :
        LexLess(GetDisplayNameString(p[1]), GetDisplayNameString(p[2]))}

\* The comparison lambda handed to OutChildren.Sort.
DisplayNameLess(a, b) == <<a.obj, b.obj>> \in NameOrder

\* TArray::Sort is not stable: every ordering in which no element precedes
\* one that compares smaller is a possible outcome.  Arrangements(s, S) are
\* those orderings of the index set S, as sequences of indexes into s.
RECURSIVE Arrangements(_, _)
Arrangements(s, S) ==
    IF S = {} THEN {<<>>}
    ELSE UNION { { <<m>> \o t : t \in Arrangements(s, S \ {m}) } :
                 m \in {m \in S : \A k \in S : ~DisplayNameLess(s[k], s[m])} }

SortOutcomes(s) ==
    { [i \in 1..Len(s) |-> s[p[i]]] : p \in Arrangements(s, 1..Len(s)) }

\* --------------------------------------------------------------- state
VARIABLES
    Categories,               \* FSubsystemBrowserModule::GetCategories()
    DynamicColumns,           \* FSubsystemBrowserModule::GetDynamicColumns()
    CategoryStates,           \* settings: persisted category visibility
    TableColumnStates,        \* settings: column activation flags
    ShowOnlyGame,             \* settings: ShouldShowOnlyGame()
    FilterState,              \* SubsystemCategoryFilter::FilterState
    CurrentWorld,             \* FSubsystemModel::CurrentWorld
    AllCategories,            \* FSubsystemModel::AllCategories
    AllSubsystems,            \* FSubsystemModel::AllSubsystems
    AllSubsystemsByCategory,  \* FSubsystemModel::AllSubsystemsByCategory
    CategoryFilterValid,      \* FSubsystemModel::CategoryFilter.IsValid()
    SubsystemTextFilter,      \* FSubsystemModel::SubsystemTextFilter
    Halted,                   \* a check() has failed
    lastCall                  \* history: the last call of the model or filter

vars == <<Categories, DynamicColumns, CategoryStates, TableColumnStates,
          ShowOnlyGame, FilterState, CurrentWorld, AllCategories,
          AllSubsystems, AllSubsystemsByCategory, CategoryFilterValid,
          SubsystemTextFilter, Halted, lastCall>>

registryVars == <<Categories, DynamicColumns>>

treeVars == <<CurrentWorld, AllCategories, AllSubsystems, AllSubsystemsByCategory>>

filterVars == <<CategoryStates, FilterState>>

NoEntry == [cats |-> 0, subs |-> 0, byCat |-> 0]

NoCall == [op |-> "none", arg |-> "none", flag |-> FALSE, prevWorld |-> NullWorld,
           wasVisible |-> FALSE, residue |-> 0, entry |-> NoEntry,
           broadcasts |-> 0, ret |-> <<>>]

\* ------------------------------------------------ SubsystemCategoryFilter
IsCategoryVisible(InCategory) ==
    IF ~(InCategory \in DOMAIN FilterState) THEN TRUE ELSE FilterState[InCategory]

\* Item.GetID() of a category item is its descriptor's identifier.
PassesFilter(InItem) == IsCategoryVisible(InItem.desc.id)

\* ---------------------------------------------------------- tree building
Model == [cats |-> AllCategories, subs |-> AllSubsystems,
          byCat |-> AllSubsystemsByCategory]

NewModel == [cats |-> <<>>, subs |-> <<>>, byCat |-> EmptyMap]

EmptyModelKeepCategories(m) == [m EXCEPT !.subs = <<>>, !.byCat = EmptyMap]

EmptyModelKeepSubsystems(m) == [m EXCEPT !.cats = <<>>]

\* RemoveAllChildren on every category, then the three containers emptied.
EmptyModel(m) == [cats |-> <<>>, subs |-> <<>>, byCat |-> EmptyMap]

\* One category item per registered descriptor, appended in registry order
\* (uid is the item's identity), then the whole array stably sorted.
PopulateCategories(m, registry) ==
    LET made == [i \in 1..Len(registry) |->
                    [desc |-> registry[i], uid |-> Len(m.cats) + i]]
        all == m.cats \o made
    IN [m EXCEPT !.cats = StableSort(all,
                    [i \in 1..Len(all), j \in 1..Len(all) |->
                        SubsystemCategorySorter(all[i], all[j])])]

\* Inner loop of PopulateSubsystems: one subsystem item per selected object.
RECURSIVE AddSubsystems(_, _, _)
AddSubsystems(m, cat, objs) ==
    IF objs = <<>> THEN m
    ELSE LET d == [obj |-> Head(objs), parent |-> cat, uid |-> Len(m.subs) + 1]
         IN AddSubsystems([m EXCEPT !.subs = Append(@, d),
                                    !.byCat = FindOrAddAppend(@, cat.desc.id, d)],
                          cat, Tail(objs))

\* Outer loop of PopulateSubsystems over AllCategories from index i.
RECURSIVE PopulateFrom(_, _, _)
PopulateFrom(m, i, world) ==
    IF i > Len(m.cats) THEN m
    ELSE PopulateFrom(AddSubsystems(m, m.cats[i], Select(m.cats[i].desc, world)),
                      i + 1, world)

\* Same loops, but the map entry is overwritten instead of appended to.
RECURSIVE AddSubsystemsOverwrite(_, _, _)
AddSubsystemsOverwrite(m, cat, objs) ==
    IF objs = <<>> THEN m
    ELSE LET d == [obj |-> Head(objs), parent |-> cat, uid |-> Len(m.subs) + 1]
         IN AddSubsystemsOverwrite([m EXCEPT !.subs = Append(@, d),
                                    !.byCat = MapAdd(@, cat.desc.id, <<d>>)],
                          cat, Tail(objs))

RECURSIVE PopulateFromOverwrite(_, _, _)
PopulateFromOverwrite(m, i, world) ==
    IF i > Len(m.cats) THEN m
    ELSE PopulateFromOverwrite(
            AddSubsystemsOverwrite(m, m.cats[i], Select(m.cats[i].desc, world)),
            i + 1, world)

PopulateSubsystemsOverwrite(m, world) == PopulateFromOverwrite(m, 1, world)

\* Same loops, but walking the categories from last to first.
RECURSIVE PopulateDownFrom(_, _, _)
PopulateDownFrom(m, i, world) ==
    IF i < 1 THEN m
    ELSE PopulateDownFrom(AddSubsystems(m, m.cats[i], Select(m.cats[i].desc, world)),
                          i - 1, world)

PopulateSubsystemsReversed(m, world) == PopulateDownFrom(m, Len(m.cats), world)

PopulateSubsystems(m, world) == PopulateFrom(m, 1, world)

\* The two check() calls at the top of PopulateSubsystems.
PopulateChecksPass(m) == Len(m.subs) = 0 /\ DOMAIN m.byCat = {}

\* ---------------------------------------------------------------- queries
GetAllCategories == AllCategories

GetFilteredCategoriesUnfiltered == GetAllCategories

GetFilteredCategories ==
    SelectSeq(GetAllCategories,
              LAMBDA Item : ~CategoryFilterValid \/ PassesFilter(Item))

GetAllSubsystemsInCategory(Category) ==
    IF Category.desc.id \in DOMAIN AllSubsystemsByCategory
    THEN AllSubsystemsByCategory[Category.desc.id]
    ELSE <<>>

\* The loop of GetFilteredSubsystems: the children that are kept.
KeptChildren(Category) ==
    IF Category.desc.id \in DOMAIN AllSubsystemsByCategory
    THEN SelectSeq(AllSubsystemsByCategory[Category.desc.id],
                   LAMBDA Item :
                       /\ ~(ShowOnlyGame /\ ~IsGameModule(Item.obj))
                       /\ \/ SubsystemTextFilter = NoTextFilter
                          \/ TextFilterPasses(SubsystemTextFilter, Item))
    ELSE <<>>

GetFilteredSubsystemsUnsorted(Category) == {KeptChildren(Category)}

GetFilteredSubsystemsOfVisible(Category) ==
    IF CategoryFilterValid /\ ~PassesFilter(Category)
    THEN {<<>>}
    ELSE IF Len(KeptChildren(Category)) > 1
         THEN SortOutcomes(KeptChildren(Category))
         ELSE {KeptChildren(Category)}

\* The set of values OutChildren can hold when GetFilteredSubsystems returns.
GetFilteredSubsystems(Category) ==
    IF Len(KeptChildren(Category)) > 1
    THEN SortOutcomes(KeptChildren(Category))
    ELSE {KeptChildren(Category)}

\* The loop of GetNumSubsystemsFromVisibleCategories from index i.
RECURSIVE CountFrom(_, _)
CountFrom(VisibleCategories, i) ==
    IF i > Len(VisibleCategories) THEN 0
    ELSE Len(GetAllSubsystemsInCategory(VisibleCategories[i]))
         + CountFrom(VisibleCategories, i + 1)

RECURSIVE CountKeptFrom(_, _)
CountKeptFrom(VisibleCategories, i) ==
    IF i > Len(VisibleCategories) THEN 0
    ELSE Len(KeptChildren(VisibleCategories[i]))
         + CountKeptFrom(VisibleCategories, i + 1)

GetNumSubsystemsFromVisibleCategoriesKept == CountKeptFrom(GetFilteredCategories, 1)

GetNumSubsystemsFromVisibleCategories == CountFrom(GetFilteredCategories, 1)

GetDynamicColumnsIgnoringFlag(bActiveOnly) ==
    StableSort(DynamicColumns,
               [i \in 1..Len(DynamicColumns), j \in 1..Len(DynamicColumns) |->
                   SubsystemColumnSorter(DynamicColumns[i], DynamicColumns[j])])

GetDynamicColumns(bActiveOnly) ==
    LET Result == SelectSeq(DynamicColumns,
                      LAMBDA Column : ~bActiveOnly \/ TableColumnStates[Column.name])
    IN StableSort(Result,
                  [i \in 1..Len(Result), j \in 1..Len(Result) |->
                      SubsystemColumnSorter(Result[i], Result[j])])

\* ---------------------------------------------------------------- actions
\* LoadCategoryStates(FilterState) in the filter's constructor.
LoadCategoryStates(stored) == stored

SetCurrentWorld(InWorld) ==
    /\ ~Halted
    /\ LET cleared == EmptyModel(Model)
           withCats == PopulateCategories(cleared, Categories)
           ok == PopulateChecksPass(withCats)
           built == IF ok THEN PopulateSubsystems(withCats, InWorld) ELSE withCats
       IN /\ CurrentWorld' = InWorld
          /\ AllCategories' = built.cats
          /\ AllSubsystems' = built.subs
          /\ AllSubsystemsByCategory' = built.byCat
          /\ Halted' = ~ok
          /\ lastCall' = [NoCall EXCEPT
                            !.op = "SetCurrentWorld",
                            !.arg = InWorld,
                            !.prevWorld = CurrentWorld,
                            !.residue = Len(AllCategories) + Len(AllSubsystems),
                            !.entry = [cats |-> Len(cleared.cats),
                                       subs |-> Len(cleared.subs),
                                       byCat |-> Cardinality(DOMAIN cleared.byCat)]]
    /\ UNCHANGED <<registryVars, filterVars, TableColumnStates, ShowOnlyGame,
                   CategoryFilterValid, SubsystemTextFilter>>

ShowCategory(InCategory) ==
    /\ ~Halted
    /\ FilterState' = MapAdd(FilterState, InCategory, TRUE)
    /\ CategoryStates' = MapAdd(CategoryStates, InCategory, TRUE)
    /\ lastCall' = [NoCall EXCEPT !.op = "ShowCategory", !.arg = InCategory,
                                  !.flag = TRUE,
                                  !.wasVisible = IsCategoryVisible(InCategory),
                                  !.broadcasts = 1]
    /\ UNCHANGED <<registryVars, treeVars, TableColumnStates, ShowOnlyGame,
                   CategoryFilterValid, SubsystemTextFilter, Halted>>

HideCategoryNoPersist(InCategory) ==
    /\ ~Halted
    /\ FilterState' = MapAdd(FilterState, InCategory, FALSE)
    /\ lastCall' = [NoCall EXCEPT !.op = "HideCategory", !.arg = InCategory,
                                  !.flag = FALSE,
                                  !.wasVisible = IsCategoryVisible(InCategory),
                                  !.broadcasts = 1]
    /\ UNCHANGED <<registryVars, treeVars, TableColumnStates, ShowOnlyGame,
                   CategoryFilterValid, SubsystemTextFilter, Halted, CategoryStates>>

HideCategory(InCategory) ==
    /\ ~Halted
    /\ FilterState' = MapAdd(FilterState, InCategory, FALSE)
    /\ CategoryStates' = MapAdd(CategoryStates, InCategory, FALSE)
    /\ lastCall' = [NoCall EXCEPT !.op = "HideCategory", !.arg = InCategory,
                                  !.flag = FALSE,
                                  !.wasVisible = IsCategoryVisible(InCategory),
                                  !.broadcasts = 1]
    /\ UNCHANGED <<registryVars, treeVars, TableColumnStates, ShowOnlyGame,
                   CategoryFilterValid, SubsystemTextFilter, Halted>>

\* The owner of the model installs or removes its CategoryFilter.
AssignCategoryFilter(valid) ==
    /\ ~Halted
    /\ valid # CategoryFilterValid
    /\ CategoryFilterValid' = valid
    /\ UNCHANGED <<registryVars, treeVars, filterVars, TableColumnStates,
                   ShowOnlyGame, SubsystemTextFilter, Halted, lastCall>>

\* The owner of the model installs, swaps or removes its SubsystemTextFilter.
AssignTextFilter(f) ==
    /\ ~Halted
    /\ f # SubsystemTextFilter
    /\ SubsystemTextFilter' = f
    /\ UNCHANGED <<registryVars, treeVars, filterVars, TableColumnStates,
                   ShowOnlyGame, CategoryFilterValid, Halted, lastCall>>

\* The user toggles the settings' game-only flag.
SetShowOnlyGame(b) ==
    /\ ~Halted
    /\ b # ShowOnlyGame
    /\ ShowOnlyGame' = b
    /\ UNCHANGED <<registryVars, treeVars, filterVars, TableColumnStates,
                   CategoryFilterValid, SubsystemTextFilter, Halted, lastCall>>

\* The user toggles a column's activation flag in the settings.
SetTableColumnState(name, b) ==
    /\ b # TableColumnStates[name]
    /\ TableColumnStates' = [TableColumnStates EXCEPT ![name] = b]
    /\ UNCHANGED <<registryVars, treeVars, filterVars, ShowOnlyGame,
                   CategoryFilterValid, SubsystemTextFilter, Halted, lastCall>>

\* A call of GetDynamicColumns; the returned array is kept in lastCall.
CallGetDynamicColumns(bActiveOnly) ==
    /\ lastCall' = [NoCall EXCEPT !.op = "GetDynamicColumns", !.flag = bActiveOnly,
                                  !.ret = GetDynamicColumns(bActiveOnly)]
    /\ UNCHANGED <<registryVars, treeVars, filterVars, TableColumnStates,
                   ShowOnlyGame, CategoryFilterValid, SubsystemTextFilter, Halted>>

\* ---------------------------------------------------------- specifications
\* A constructed FSubsystemModel: no world, empty containers, no filters.
InitModel ==
    /\ CurrentWorld = NullWorld
    /\ AllCategories = <<>>
    /\ AllSubsystems = <<>>
    /\ AllSubsystemsByCategory = EmptyMap
    /\ CategoryFilterValid = FALSE
    /\ SubsystemTextFilter = NoTextFilter
    /\ Halted = FALSE
    /\ lastCall = NoCall

Init ==
    /\ Categories \in SeqsUpTo(Descriptors, MaxCategories)
    /\ DynamicColumns = <<>>
    /\ TableColumnStates = [n \in ColumnNames |-> TRUE]
    /\ ShowOnlyGame = FALSE
    /\ CategoryStates \in PartialMaps(CategoryIDs, BOOLEAN)
    /\ FilterState = LoadCategoryStates(CategoryStates)
    /\ InitModel

Next ==
    \/ \E w \in Contexts : SetCurrentWorld(w)
    \/ \E id \in CategoryIDs : ShowCategory(id)
    \/ \E id \in CategoryIDs : HideCategory(id)
    \/ \E v \in BOOLEAN : AssignCategoryFilter(v)
    \/ \E f \in TextFilters \cup {NoTextFilter} : AssignTextFilter(f)
    \/ \E b \in BOOLEAN : SetShowOnlyGame(b)

Spec == Init /\ [][Next]_vars

\* The dynamic column query over every column registry and flag assignment.
InitColumns ==
    /\ Categories = <<>>
    /\ \E regs \in SeqsUpTo(ColumnDescs, MaxColumns) :
          DynamicColumns = [i \in 1..Len(regs) |->
                               [name |-> regs[i].name, prio |-> regs[i].prio,
                                uid |-> i]]
    /\ TableColumnStates \in [ColumnNames -> BOOLEAN]
    /\ ShowOnlyGame = FALSE
    /\ CategoryStates = EmptyMap
    /\ FilterState = LoadCategoryStates(CategoryStates)
    /\ InitModel

NextColumns ==
    \/ \E n \in ColumnNames, b \in BOOLEAN : SetTableColumnState(n, b)
    \/ \E b \in BOOLEAN : CallGetDynamicColumns(b)

SpecColumns == InitColumns /\ [][NextColumns]_vars

\* ------------------------------------------------------ claim vocabulary
NoDuplicates(s) == \A i, j \in 1..Len(s) : i < j => s[i] # s[j]

\* f picks elements of a at strictly increasing positions.
IsSubsequence(f, a) ==
    \E idx \in [1..Len(f) -> 1..Len(a)] :
        /\ \A i, j \in 1..Len(f) : i < j => idx[i] < idx[j]
        /\ \A i \in 1..Len(f) : f[i] = a[idx[i]]

\* What a subsystem item wraps: its object and its parent's descriptor.
ItemView(it) == [obj |-> it.obj, parentId |-> it.parent.desc.id,
                 parentDesc |-> it.parent.desc]

\* A model compared by the wrapped descriptors, objects and parent ids.
View(m) ==
    [cats |-> [i \in 1..Len(m.cats) |-> m.cats[i].desc],
     subs |-> [i \in 1..Len(m.subs) |-> ItemView(m.subs[i])],
     byCat |-> [k \in DOMAIN m.byCat |->
                  [i \in 1..Len(m.byCat[k]) |-> ItemView(m.byCat[k][i])]]]

\* The model a freshly constructed FSubsystemModel holds after one
\* SetCurrentWorld(w).
FreshBuild(w) == PopulateSubsystems(PopulateCategories(NewModel, Categories), w)

\* The children the mapping holds for an identifier (none if no entry).
MappedChildren(id) ==
    IF id \in DOMAIN AllSubsystemsByCategory THEN AllSubsystemsByCategory[id]
    ELSE <<>>

\* Concatenation of the mapped children over AllCategories from index i.
RECURSIVE ChildrenConcat(_)
ChildrenConcat(i) ==
    IF i > Len(AllCategories) THEN <<>>
    ELSE MappedChildren(AllCategories[i].desc.id) \o ChildrenConcat(i + 1)

DistinctCategoryIds ==
    \A i, j \in 1..Len(AllCategories) :
        i # j => AllCategories[i].desc.id # AllCategories[j].desc.id

FlatIsConcatenation ==
    /\ AllSubsystems = ChildrenConcat(1)
    /\ NoDuplicates(AllSubsystems)
    /\ \A i \in 1..Len(AllSubsystems) :
          AllSubsystems[i].parent.desc.id \in DOMAIN AllSubsystemsByCategory

\* Sum over the visible categories of their unfiltered child counts.
UnfilteredVisibleCount ==
    Cardinality(UNION { { <<i, j>> :
                          j \in 1..Len(GetAllSubsystemsInCategory(GetFilteredCategories[i])) } :
                        i \in 1..Len(GetFilteredCategories) })

\* Sum of the unfiltered child counts of the categories at the positions P.
ChildCountAt(P) ==
    Cardinality(UNION { { <<i, j>> :
                          j \in 1..Len(GetAllSubsystemsInCategory(AllCategories[i])) } :
                        i \in P })

PriorityOrdered(s) ==
    \A i, j \in 1..Len(s) :
        i < j => \/ s[i].prio < s[j].prio
                 \/ (s[i].prio = s[j].prio /\ s[i].uid < s[j].uid)

\* ----------------------------------------------------------------- claims
\* C1: after setContext(C1) followed by setContext(C2) with C1 # C2 the
\* model (categories, flat subsystems, category-to-children mapping, compared
\* by wrapped descriptors/objects and parent ids) is the one setContext(C2)
\* alone builds: nothing derived from C1 remains.
C1_RebuildEqualsFreshBuild ==
    (lastCall.op = "SetCurrentWorld" /\ lastCall.prevWorld # lastCall.arg)
        => /\ CurrentWorld = lastCall.arg
           /\ View(Model) = View(FreshBuild(lastCall.arg))

C1_Witness ==
    /\ lastCall.op = "SetCurrentWorld"
    /\ lastCall.prevWorld \in Worlds
    /\ lastCall.arg \in Worlds
    /\ lastCall.prevWorld # lastCall.arg
    /\ lastCall.residue > 2
    /\ Len(AllSubsystems) > 0

\* C2 (as claimed): for every registry content, also with descriptors that
\* share an identifier, the flat subsystem sequence is the concatenation, in
\* category order, of the children mapped to each category's identifier, with
\* no item twice and none missing.
C2_FlatIsConcatenationAnyRegistry == FlatIsConcatenation

\* C2 (amended): whenever the categories of the model carry pairwise distinct
\* identifiers, the flat subsystem sequence is the concatenation, in category
\* order, of the children mapped to each category's identifier, with no item
\* twice, none missing, and every item's parent identifier a key of the map.
C2_FlatIsConcatenationDistinctIds == DistinctCategoryIds => FlatIsConcatenation

C2_Witness ==
    /\ DistinctCategoryIds
    /\ Len(AllCategories) >= 2
    /\ Len(AllSubsystems) >= 2
    /\ \E i \in 1..Len(AllCategories) :
          ~(AllCategories[i].desc.id \in DOMAIN AllSubsystemsByCategory)

\* C3: for every category K of the model, getAllSubsystemsInCategory(K) is
\* exactly the subsystem items whose parent's identifier is K's identifier, in
\* enumeration order, each once; it is empty when K has no indexed children.
C3_ChildrenAreItemsWithParentId ==
    \A i \in 1..Len(AllCategories) :
        LET K == AllCategories[i]
            r == GetAllSubsystemsInCategory(K)
        IN /\ r = SelectSeq(AllSubsystems,
                            LAMBDA it : it.parent.desc.id = K.desc.id)
           /\ NoDuplicates(r)
           /\ (~(K.desc.id \in DOMAIN AllSubsystemsByCategory) => r = <<>>)

C3_Witness ==
    /\ \E i \in 1..Len(AllCategories) :
          Len(GetAllSubsystemsInCategory(AllCategories[i])) >= 2
    /\ \E i \in 1..Len(AllCategories) :
          /\ ~(AllCategories[i].desc.id \in DOMAIN AllSubsystemsByCategory)
          /\ GetAllSubsystemsInCategory(AllCategories[i]) = <<>>

\* C4: with a category filter installed, right after hideCategory(id) no
\* category with that id is in getFilteredCategories(), right after
\* showCategory(id) every category with that id is; and getFilteredCategories()
\* is always an order-preserving subsequence of getAllCategories().
C4_HideShowFilteredCategories ==
    /\ IsSubsequence(GetFilteredCategories, GetAllCategories)
    /\ NoDuplicates(GetFilteredCategories)
    /\ (CategoryFilterValid /\ lastCall.op = "HideCategory") =>
          \A i \in 1..Len(AllCategories) :
              AllCategories[i].desc.id = lastCall.arg
                  => ~(AllCategories[i] \in Range(GetFilteredCategories))
    /\ (CategoryFilterValid /\ lastCall.op = "ShowCategory") =>
          \A i \in 1..Len(AllCategories) :
              AllCategories[i].desc.id = lastCall.arg
                  => AllCategories[i] \in Range(GetFilteredCategories)

C4_Witness ==
    /\ CategoryFilterValid
    /\ lastCall.op = "ShowCategory"
    /\ ~lastCall.wasVisible
    /\ Len(GetFilteredCategories) >= 2
    /\ AllCategories[2].desc.id = lastCall.arg
    /\ AllCategories[1].desc.id # lastCall.arg

\* C5: every result of getFilteredSubsystems(K) is a rearrangement of exactly
\* the children of K that are game items when game-only is on and pass the
\* text filter when one is installed; with two or more survivors it is
\* non-decreasing by display name, with at most one it is the survivors
\* unchanged.
C5_FilteredSubsystems ==
    \A i \in 1..Len(AllCategories) :
        LET K == AllCategories[i]
            survives(it) ==
                /\ ShowOnlyGame => IsGameModule(it.obj)
                /\ SubsystemTextFilter # NoTextFilter
                       => TextFilterPasses(SubsystemTextFilter, it)
            expected == {it \in Range(GetAllSubsystemsInCategory(K)) : survives(it)}
        IN \A r \in GetFilteredSubsystems(K) :
              /\ Range(r) = expected
              /\ Len(r) = Cardinality(expected)
              /\ Len(r) >= 2 =>
                    \A a, b \in 1..Len(r) :
                        a < b => ~LexLess(GetDisplayNameString(r[b].obj),
                                          GetDisplayNameString(r[a].obj))
              /\ Len(r) <= 1 =>
                    r = SelectSeq(GetAllSubsystemsInCategory(K), survives)

C5_Witness ==
    /\ ShowOnlyGame
    /\ SubsystemTextFilter # NoTextFilter
    /\ \E i \in 1..Len(AllCategories) :
          \E r \in GetFilteredSubsystems(AllCategories[i]) :
              /\ Len(r) >= 2
              /\ Len(r) < Len(GetAllSubsystemsInCategory(AllCategories[i]))

\* A step taken by ShowCategory (HideCategory): the history names the call and
\* none of the assignments, which leave the history alone, has acted.
ShowStep ==
    /\ lastCall'.op = "ShowCategory"
    /\ UNCHANGED <<SubsystemTextFilter, ShowOnlyGame, CategoryFilterValid>>

HideStep ==
    /\ lastCall'.op = "HideCategory"
    /\ UNCHANGED <<SubsystemTextFilter, ShowOnlyGame, CategoryFilterValid>>

\* C6: getNumSubsystemsFromVisibleCategories() is the sum over
\* getFilteredCategories() of the unfiltered child counts; installing,
\* swapping or removing the text filter and toggling game-only leave it
\* unchanged; a hide (show) call lowers (raises) it by exactly the unfiltered
\* child count of every category the call takes out of (returns to)
\* getFilteredCategories(): the categories with the call's identifier when it
\* was visible (hidden) and the model has a category filter, none otherwise.
C6_VisibleCountIsUnfiltered ==
    /\ [](GetNumSubsystemsFromVisibleCategories = UnfilteredVisibleCount)
    /\ [][ /\ (SubsystemTextFilter' # SubsystemTextFilter \/ ShowOnlyGame' # ShowOnlyGame)
              => GetNumSubsystemsFromVisibleCategories'
                     = GetNumSubsystemsFromVisibleCategories
           /\ HideStep
              => GetNumSubsystemsFromVisibleCategories
                   - GetNumSubsystemsFromVisibleCategories'
                 = ChildCountAt({i \in 1..Len(AllCategories) :
                       /\ CategoryFilterValid
                       /\ AllCategories[i].desc.id = lastCall'.arg
                       /\ IsCategoryVisible(lastCall'.arg)})
           /\ ShowStep
              => GetNumSubsystemsFromVisibleCategories'
                   - GetNumSubsystemsFromVisibleCategories
                 = ChildCountAt({i \in 1..Len(AllCategories) :
                       /\ CategoryFilterValid
                       /\ AllCategories[i].desc.id = lastCall'.arg
                       /\ ~IsCategoryVisible(lastCall'.arg)})
         ]_vars

C6_Witness ==
    /\ CategoryFilterValid
    /\ lastCall.op = "HideCategory"
    /\ lastCall.wasVisible
    /\ SubsystemTextFilter # NoTextFilter
    /\ ShowOnlyGame
    /\ GetNumSubsystemsFromVisibleCategories = 1
    /\ \E i \in 1..Len(AllCategories) :
          /\ AllCategories[i].desc.id = lastCall.arg
          /\ Len(GetAllSubsystemsInCategory(AllCategories[i])) = 2
          /\ KeptChildren(AllCategories[i]) = <<>>

\* C7: a showCategory or hideCategory call leaves the category sequence, the
\* flat subsystem sequence and the category-to-children mapping unchanged, and
\* with them getAllCategories(), getAllSubsystemsInCategory(K) and
\* getFilteredSubsystems(K) of every category K, hidden or visible.
C7_ShowHideFrame ==
    [][ (ShowStep \/ HideStep) =>
          /\ AllCategories' = AllCategories
          /\ AllSubsystems' = AllSubsystems
          /\ AllSubsystemsByCategory' = AllSubsystemsByCategory
          /\ GetAllCategories' = GetAllCategories
          /\ \A i \in 1..Len(AllCategories) :
                /\ GetAllSubsystemsInCategory(AllCategories[i])'
                      = GetAllSubsystemsInCategory(AllCategories[i])
                /\ GetFilteredSubsystems(AllCategories[i])'
                      = GetFilteredSubsystems(AllCategories[i])
      ]_vars

C7_Witness ==
    /\ CategoryFilterValid
    /\ lastCall.op = "HideCategory"
    /\ lastCall.wasVisible
    /\ \E i \in 1..Len(AllCategories) :
          /\ AllCategories[i].desc.id = lastCall.arg
          /\ ~(AllCategories[i] \in Range(GetFilteredCategories))
          /\ Len(GetAllSubsystemsInCategory(AllCategories[i])) >= 2
          /\ \E r \in GetFilteredSubsystems(AllCategories[i]) : Len(r) >= 2

\* C8: a showCategory(id) / hideCategory(id) call sets the filter's override
\* for id to true / false, stores the same value in the settings and emits
\* exactly one change notification, also when the value did not change; an
\* id's override and stored value change in no other step, so for every id
\* touched isCategoryVisible(id) is the stored value and the value of the last
\* call for it, and an id never touched and absent from the loaded mapping is
\* visible.
C8_ShowHidePersistAndNotify ==
    /\ [](/\ lastCall.op \in {"ShowCategory", "HideCategory"} =>
              /\ lastCall.flag = (lastCall.op = "ShowCategory")
              /\ lastCall.arg \in DOMAIN FilterState
              /\ FilterState[lastCall.arg] = lastCall.flag
              /\ IsCategoryVisible(lastCall.arg) = lastCall.flag
              /\ lastCall.arg \in DOMAIN CategoryStates
              /\ CategoryStates[lastCall.arg] = lastCall.flag
              /\ lastCall.broadcasts = 1
          /\ \A id \in DOMAIN CategoryStates :
                /\ id \in DOMAIN FilterState
                /\ IsCategoryVisible(id) = CategoryStates[id]
          /\ \A id \in CategoryIDs :
                ~(id \in DOMAIN CategoryStates) => IsCategoryVisible(id))
    /\ [][ \A id \in CategoryIDs :
              (\/ (id \in DOMAIN FilterState) # (id \in DOMAIN FilterState')
               \/ IsCategoryVisible(id)' # IsCategoryVisible(id)
               \/ (id \in DOMAIN CategoryStates) # (id \in DOMAIN CategoryStates')
               \/ (/\ id \in DOMAIN CategoryStates
                   /\ CategoryStates'[id] # CategoryStates[id]))
                  => /\ lastCall'.op \in {"ShowCategory", "HideCategory"}
                     /\ lastCall'.arg = id
         ]_vars

C8_Witness ==
    /\ lastCall.op = "HideCategory"
    /\ ~lastCall.wasVisible
    /\ lastCall.broadcasts = 1
    /\ \E id \in CategoryIDs :
          /\ id # lastCall.arg
          /\ ~(id \in DOMAIN CategoryStates)
          /\ IsCategoryVisible(id)

\* C9: getDynamicColumns(true) holds exactly the registered columns whose
\* activation flag is set, getDynamicColumns(false) all of them; both are
\* ordered by priority with registry order kept among equal priorities, and
\* the active-only result is an order-preserving subsequence of the full one.
C9_ActiveColumnsSubsequence ==
    LET act == GetDynamicColumns(TRUE)
        all == GetDynamicColumns(FALSE)
    IN /\ Range(act) \subseteq Range(all)
       /\ Range(all) = Range(DynamicColumns)
       /\ Len(all) = Len(DynamicColumns)
       /\ Range(act) = {c \in Range(DynamicColumns) : TableColumnStates[c.name]}
       /\ NoDuplicates(act)
       /\ PriorityOrdered(act)
       /\ PriorityOrdered(all)
       /\ IsSubsequence(act, all)

C9_Witness ==
    /\ lastCall.op = "GetDynamicColumns"
    /\ lastCall.flag
    /\ Len(lastCall.ret) = 2
    /\ Len(DynamicColumns) = 3
    /\ lastCall.ret[1].uid > lastCall.ret[2].uid
    /\ lastCall.ret = GetDynamicColumns(TRUE)

\* C10: in every sequence of setContext calls the category sequence, the flat
\* subsystem sequence and the category-to-children mapping are all empty when
\* a build pass begins, so the emptiness checks of the subsystem pass never
\* fire.
C10_BuildStartsEmpty ==
    /\ ~Halted
    /\ lastCall.op = "SetCurrentWorld" => lastCall.entry = NoEntry

C10_Witness ==
    /\ lastCall.op = "SetCurrentWorld"
    /\ lastCall.prevWorld = lastCall.arg
    /\ lastCall.residue > 2
    /\ Len(AllSubsystems) > 0
    /\ ~Halted

====
